---- MODULE Spec2Model ----
(***************************************************************************)
(* Model of main.py: a FastAPI application with an image store (files      *)
(* under UPLOAD_DIR) and an inventory store (one JSON array in             *)
(* STORAGE_FILE, read whole and rewritten whole by every mutating call).   *)
(*                                                                         *)
(* Text is a sequence of one-character strings, so that startswith and     *)
(* slicing are computed, not assumed.  The only exception is the text of   *)
(* a uuid4: it is one symbol that stands for its 36 characters.            *)
(***************************************************************************)
EXTENDS Integers, Sequences, FiniteSets, TLC

\* Bounds of the model.
MaxUuid == 3         \* uuid.uuid4() calls in a behaviour of one process
MaxFiles == 1        \* stored images at which an upload is still tried
MaxWorkerUuid == 2   \* uuid.uuid4() calls in a behaviour of the workers

VARIABLES
  storage,          \* STORAGE_FILE: [valid, data, junk] (see JsonFile)
  uploaded_images,  \* UPLOAD_DIR: function from file name to its bytes
  uuids,            \* how many uuid4 values have been generated
  last,             \* one process: the request served last and its response
  created,          \* history: the items the successful creates returned, in
                    \* order, kept as long as no update or delete has succeeded
  edited,           \* history: some update or delete has succeeded
  pc,               \* per worker process: where it is in a mutating call
  local             \* per worker process: the handler's local variables

vars == <<storage, uploaded_images, uuids, last, created, edited, pc, local>>

----------------------------------------------------------------------------
(* Text helpers (str.startswith, concatenation, slicing).                  *)

StartsWith(s, p) == Len(s) >= Len(p) /\ SubSeq(s, 1, Len(p)) = p

Contains(s, c) == \E i \in 1..Len(s) : s[i] = c

\* Number of characters of a text; a uuid symbol counts for its 36.
UuidLen == 36

UuidSymbols == {"u" \o ToString(n) : n \in 1..(MaxUuid + 2)}

IsUuidSymbol(c) == c \in UuidSymbols

RECURSIVE StrLen(_)
StrLen(s) ==
  IF s = <<>> THEN 0
  ELSE (IF IsUuidSymbol(Head(s)) THEN UuidLen ELSE 1) + StrLen(Tail(s))

\* str(uuid.uuid4()) for the n-th call: random values are taken to be fresh.
str_uuid4(n) == << "u" \o ToString(n) >>

BASE_URL ==
  <<"h","t","t","p",":","/","/","l","o","c","a","l","h","o","s","t",":","8","0","0","0">>

IMAGES == <<"/","i","m","a","g","e","s","/">>   \* the literal "/images/"

IMAGE_SLASH == <<"i","m","a","g","e","/">>      \* the literal "image/"

----------------------------------------------------------------------------
(* STORAGE_FILE.  json.dump of a list of dicts of str and json.load of     *)
(* that text give back the same list in the same order with the same keys, *)
(* so a well-formed file is represented by the list it encodes.  A file    *)
(* that is not a JSON text is represented by its length, `junk'.           *)

RECURSIVE FieldsLen(_)
FieldsLen(data) ==
  IF data = <<>> THEN 0
  ELSE LET it == Head(data) IN
       StrLen(it.id) + StrLen(it.name) + StrLen(it.description)
         + StrLen(it.category) + StrLen(it.image_url) + FieldsLen(Tail(data))

\* "[]" is 2 characters; every item adds 126 characters of layout.
TextLen(data) == 2 + 126 * Len(data) + FieldsLen(data)

JsonFile(data) == [valid |-> TRUE, data |-> data, junk |-> 0]

\* The length of the file: of the text json.dump(data, f, indent=4) wrote
\* when it is well-formed.
FileLen(file) == IF file.valid THEN TextLen(file.data) ELSE file.junk

HTTPException(code, detail) == [status |-> code, body |-> [detail |-> detail]]

OK(body) == [status |-> 200, body |-> body]

\* load_inventory: the parsed list, or HTTP 500 when the text does not parse.
load_inventory(file) ==
  IF file.valid THEN [ok |-> TRUE, data |-> file.data]
  ELSE [ok |-> FALSE, data |-> <<>>]

\* save_inventory run to completion: open(.., "w") and json.dump.
save_inventory(data) == JsonFile(data)

\* open(STORAGE_FILE, "w") truncates the file.
Truncated == [valid |-> FALSE, data |-> <<>>, junk |-> 0]

\* Variant: the list is merged into what the file holds at that moment.
DumpResult_KeepOthers(file, data) ==
  IF file.valid
  THEN JsonFile(file.data \o SelectSeq(data, LAMBDA it :
                  \A i \in 1..Len(file.data) : file.data[i] # it))
  ELSE JsonFile(data)

\* json.dump and close on a handle opened earlier: the text goes to offset
\* 0 of whatever the file holds by now.  It replaces a file that is not
\* longer than the text; a longer one keeps its tail after the text, which
\* json.load rejects ("Extra data").
DumpResult(file, data) ==
  IF FileLen(file) <= TextLen(data) THEN JsonFile(data)
  ELSE [valid |-> FALSE, data |-> <<>>, junk |-> FileLen(file)]

----------------------------------------------------------------------------
(* The inventory handlers as functions of the loaded list.                 *)

\* next((item for item in inventory if item["id"] == item_id), None):
\* the position of the first match, 0 for None.
FindItem(inventory, item_id) ==
  LET S == {i \in 1..Len(inventory) : inventory[i].id = item_id} IN
  IF S = {} THEN 0 ELSE CHOOSE i \in S : \A j \in S : i <= j

\* Variant: list.pop(), which drops the last element whatever x is.
ListRemove_Pop(inventory, x) == SubSeq(inventory, 1, Len(inventory) - 1)

\* list.remove(x): drops the first element equal to x.
ListRemove(inventory, x) ==
  LET S == {i \in 1..Len(inventory) : inventory[i] = x}
      k == CHOOSE i \in S : \A j \in S : i <= j
  IN SubSeq(inventory, 1, k - 1) \o SubSeq(inventory, k + 1, Len(inventory))

\* Variant: the description is stored as the name.
NewItem_NameFromDescription(item_id, form) ==
  [id |-> item_id, name |-> form.description, description |-> form.description,
   category |-> form.category, image_url |-> form.image_url]

NewItem(item_id, form) ==
  [id |-> item_id, name |-> form.name, description |-> form.description,
   category |-> form.category, image_url |-> form.image_url]

\* dict.update of the four form fields; "id" is not among them.
ItemUpdate(item, form) ==
  [item EXCEPT !.name = form.name, !.description = form.description,
               !.category = form.category, !.image_url = form.image_url]

\* The part of a reference after "/images/", which the route
\* /images/{filename} hands to get_image.
FilenameOf(image_url) == SubSeq(image_url, Len(IMAGES) + 1, Len(image_url))

\* Variant: the reference must also name a stored image.
ValidImageUrl_Stored(image_url) ==
  StartsWith(image_url, IMAGES) /\ FilenameOf(image_url) \in DOMAIN uploaded_images

\* image_url.startswith("/images/")
ValidImageUrl(image_url) == StartsWith(image_url, IMAGES)

NotFoundItem == HTTPException(404, "Inventory item not found.")

InvalidUrl == HTTPException(400, "Invalid image URL format. Must start with /images/")

LoadError == HTTPException(500, "Error loading inventory")

\* Each handler gives its response, whether it calls save_inventory, and
\* the list it passes to it.
Handled(resp, save, data) == [resp |-> resp, save |-> save, data |-> data]

get_inventory(file) ==
  LET l == load_inventory(file) IN
  IF ~l.ok THEN LoadError ELSE OK(l.data)

get_inventory_item(file, item_id) ==
  LET l == load_inventory(file)
      k == FindItem(l.data, item_id)
  IN IF ~l.ok THEN LoadError
     ELSE IF k = 0 THEN NotFoundItem
     ELSE OK(l.data[k])

\* Variant: inventory.insert(0, item) instead of inventory.append(item).
create_inventory_item_Prepend(file, item_id, form) ==
  LET l == load_inventory(file)
      item == NewItem(item_id, form)
  IN IF ~l.ok THEN Handled(LoadError, FALSE, <<>>)
     ELSE IF ~ValidImageUrl(form.image_url) THEN Handled(InvalidUrl, FALSE, l.data)
     ELSE Handled(OK(item), TRUE, <<item>> \o l.data)

\* Variant: the item is appended and saved before image_url is checked.
create_inventory_item_SaveFirst(file, item_id, form) ==
  LET l == load_inventory(file)
      item == NewItem(item_id, form)
  IN IF ~l.ok THEN Handled(LoadError, FALSE, <<>>)
     ELSE IF ~ValidImageUrl(form.image_url)
       THEN Handled(InvalidUrl, TRUE, Append(l.data, item))
     ELSE Handled(OK(item), TRUE, Append(l.data, item))

create_inventory_item(file, item_id, form) ==
  LET l == load_inventory(file)
      item == NewItem(item_id, form)
  IN IF ~l.ok THEN Handled(LoadError, FALSE, <<>>)
     ELSE IF ~ValidImageUrl(form.image_url) THEN Handled(InvalidUrl, FALSE, l.data)
     ELSE Handled(OK(item), TRUE, Append(l.data, item))

\* Variant: the updated item is removed and appended at the end.
update_inventory_item_MoveToEnd(file, item_id, form) ==
  LET l == load_inventory(file)
      k == FindItem(l.data, item_id)
  IN IF ~l.ok THEN Handled(LoadError, FALSE, <<>>)
     ELSE IF k = 0 THEN Handled(NotFoundItem, FALSE, l.data)
     ELSE IF ~ValidImageUrl(form.image_url) THEN Handled(InvalidUrl, FALSE, l.data)
     ELSE LET item == ItemUpdate(l.data[k], form) IN
          Handled(OK(item), TRUE, Append(ListRemove(l.data, l.data[k]), item))

\* Variant: the updated item is appended and the old one is kept.
update_inventory_item_KeepOld(file, item_id, form) ==
  LET l == load_inventory(file)
      k == FindItem(l.data, item_id)
  IN IF ~l.ok THEN Handled(LoadError, FALSE, <<>>)
     ELSE IF k = 0 THEN Handled(NotFoundItem, FALSE, l.data)
     ELSE IF ~ValidImageUrl(form.image_url) THEN Handled(InvalidUrl, FALSE, l.data)
     ELSE LET item == ItemUpdate(l.data[k], form) IN
          Handled(OK(item), TRUE, Append(l.data, item))

\* Variant: image_url is validated before the item is looked up.
update_inventory_item_ValidateFirst(file, item_id, form) ==
  LET l == load_inventory(file)
      k == FindItem(l.data, item_id)
  IN IF ~l.ok THEN Handled(LoadError, FALSE, <<>>)
     ELSE IF ~ValidImageUrl(form.image_url) THEN Handled(InvalidUrl, FALSE, l.data)
     ELSE IF k = 0 THEN Handled(NotFoundItem, FALSE, l.data)
     ELSE LET item == ItemUpdate(l.data[k], form) IN
          Handled(OK(item), TRUE, [l.data EXCEPT ![k] = item])

update_inventory_item(file, item_id, form) ==
  LET l == load_inventory(file)
      k == FindItem(l.data, item_id)
  IN IF ~l.ok THEN Handled(LoadError, FALSE, <<>>)
     ELSE IF k = 0 THEN Handled(NotFoundItem, FALSE, l.data)
     ELSE IF ~ValidImageUrl(form.image_url) THEN Handled(InvalidUrl, FALSE, l.data)
     ELSE LET item == ItemUpdate(l.data[k], form) IN
          Handled(OK(item), TRUE, [l.data EXCEPT ![k] = item])

delete_inventory_item(file, item_id) ==
  LET l == load_inventory(file)
      k == FindItem(l.data, item_id)
  IN IF ~l.ok THEN Handled(LoadError, FALSE, <<>>)
     ELSE IF k = 0 THEN Handled(NotFoundItem, FALSE, l.data)
     ELSE Handled(OK([detail |-> "deleted", item_id |-> item_id]), TRUE,
                  ListRemove(l.data, l.data[k]))

----------------------------------------------------------------------------
(* The image handlers.                                                     *)

\* f"{file_id}_{file.filename}"
StorageFilename(file_id, filename) == file_id \o <<"_">> \o filename

\* f"/images/{file_id}_{file.filename}"
RelativePath(file_id, filename) == IMAGES \o StorageFilename(file_id, filename)

\* open(os.path.join(UPLOAD_DIR, name), "wb") creates the file only when the
\* directory it names exists.  UPLOAD_DIR has no subdirectories, and a name
\* that starts with a uuid never has "." or ".." as its first component, so
\* the open succeeds exactly when the name has no path separator.
CanOpenForWrite(name) == ~Contains(name, "/")

\* upload_image: the response and the directory after the call.
upload_image(dir, file_id, file) ==
  IF ~file.declared
    THEN [resp |-> HTTPException(500, "AttributeError"), dir |-> dir, uuid |-> FALSE]
  ELSE IF ~StartsWith(file.content_type, IMAGE_SLASH)
    THEN [resp |-> HTTPException(400, "Only image files are allowed."),
          dir |-> dir, uuid |-> FALSE]
  ELSE LET name == StorageFilename(file_id, file.filename) IN
    IF ~CanOpenForWrite(name)
      THEN [resp |-> HTTPException(500, "FileNotFoundError"), dir |-> dir, uuid |-> TRUE]
    ELSE [resp |-> OK([image_url |-> RelativePath(file_id, file.filename),
                       full_url |-> BASE_URL \o RelativePath(file_id, file.filename)]),
          dir |-> (name :> file.content) @@ dir,
          uuid |-> TRUE]

\* str.lower on the upper-case letters of this model's alphabet.
LowerCase == [P |-> "p", N |-> "n", G |-> "g", I |-> "i", F |-> "f"]

Lower(c) == IF c \in DOMAIN LowerCase THEN LowerCase[c] ELSE c

\* s.lower().endswith(x) for a lower-case x: lower() works character by
\* character, so only the last Len(x) characters of s matter.
LowerEndsWith(s, x) ==
  /\ Len(s) >= Len(x)
  /\ \A i \in 1..Len(x) : Lower(s[Len(s) - Len(x) + i]) = x[i]

\* The names every directory has besides its files: itself and its parent.
Dot == <<".">>
DotDot == <<".", ".">>

\* os.path.exists(os.path.join(UPLOAD_DIR, filename)): true of a stored
\* file, and of the directory entries "." and "..".
PathExists(dir, filename) == filename \in DOMAIN dir \/ filename \in {Dot, DotDot}

ContentTypeOf(filename) ==
  IF LowerEndsWith(filename, <<".","p","n","g">>) THEN "image/png"
  ELSE IF LowerEndsWith(filename, <<".","g","i","f">>) THEN "image/gif"
  ELSE "image/jpeg"

\* get_image: 404 when the path does not exist, else a FileResponse of the
\* path, which fails (500) when the path is a directory.
get_image(dir, filename) ==
  IF ~PathExists(dir, filename) THEN HTTPException(404, "Image not found.")
  ELSE IF filename \notin DOMAIN dir THEN HTTPException(500, "RuntimeError")
  ELSE OK([content |-> dir[filename], media_type |-> ContentTypeOf(filename)])

----------------------------------------------------------------------------
(* Requests.                                                               *)

Hammer == <<"H","a","m","m","e","r">>
Saw == <<"S","a","w">>
HammerPng == <<"h",".","p","n","g">>
NotAnImagePath ==
  <<"n","o","t","-","a","n","-","i","m","a","g","e","-","p","a","t","h">>

Form(n, d, c, u) == [name |-> n, description |-> d, category |-> c, image_url |-> u]

\* Forms whose image_url names no uploaded file.
DanglingForms ==
  { Form(Hammer, <<"1","6","o","z">>, <<"T","o","o","l","s">>, IMAGES \o HammerPng),
    Form(Saw, <<"c","u","t">>, <<"G","a","r","d","e","n">>, IMAGES) }

\* Forms whose image_url is a reference upload_image returned.
UploadedForms(dir) ==
  { Form(<<"A","x","e">>, <<>>, <<"W","o","o","d">>, IMAGES \o f) : f \in DOMAIN dir }

\* Forms whose image_url lacks the prefix: a plain word, and an absolute URL.
InvalidForms ==
  { Form(Hammer, <<"1","6","o","z">>, <<"T","o","o","l","s">>, NotAnImagePath),
    Form(Saw, <<"c","u","t">>, <<"G","a","r","d","e","n">>, BASE_URL \o IMAGES \o HammerPng) }

Forms(dir) == DanglingForms \cup UploadedForms(dir) \cup InvalidForms

\* Ids a caller may send: those of the stored items, the uuid generated
\* last (of an item since deleted, of an upload, or of a stored item), and
\* one that never was generated.
UnknownId == <<"z">>

ItemIds ==
  {storage.data[i].id : i \in 1..Len(storage.data)} \cup {str_uuid4(uuids), UnknownId}

APng == <<"a",".","p","n","g">>
BGif == <<"b",".","G","I","F">>
DirPng == <<"d","/","e",".","p","n","g">>

ImagePng == IMAGE_SLASH \o <<"p","n","g">>
ImageGif == IMAGE_SLASH \o <<"g","i","f">>
TextPlain == <<"t","e","x","t","/","p","l","a","i","n">>

UploadFile(ct, declared, filename, content) ==
  [content_type |-> ct, declared |-> declared, filename |-> filename, content |-> content]

PngBytes == <<137, 80>>
GifBytes == <<71, 73>>

\* Uploads a caller may send: images under plain names, an image whose name
\* has a path separator, a non-image, and a part without a Content-Type.
UploadFiles ==
  { UploadFile(ImagePng, TRUE, APng, PngBytes),
    UploadFile(ImageGif, TRUE, APng, GifBytes),
    UploadFile(ImagePng, TRUE, BGif, GifBytes),
    UploadFile(ImagePng, TRUE, DirPng, PngBytes),
    UploadFile(TextPlain, TRUE, APng, PngBytes),
    UploadFile(<<>>, FALSE, APng, PngBytes) }

\* File names a caller may ask for: the stored ones, the ones the inventory
\* refers to, one that is neither, and the parent directory.
Filenames ==
  DOMAIN uploaded_images
  \cup {FilenameOf(storage.data[i].image_url) : i \in 1..Len(storage.data)}
  \cup {APng, DotDot}

----------------------------------------------------------------------------
(* One process, one event loop: the inventory handlers are coroutines      *)
(* without an await, so each runs from load_inventory to its return        *)
(* without another request in between.                                     *)

Workers == {"w1", "w2"}

Idle == [op |-> "none", arg |-> <<>>, resp |-> OK(<<>>), data |-> <<>>]

Request(op, arg, resp) ==
  [op |-> op, arg |-> arg, status |-> resp.status, body |-> resp.body]

Persist(h) ==
  storage' = IF h.save THEN save_inventory(h.data) ELSE storage

\* The history of successful mutating calls.
Record(op, resp) ==
  /\ edited' = (edited \/ (op \in {"update", "delete"} /\ resp.status = 200))
  /\ created' = IF edited' THEN <<>>
                ELSE IF op = "create" /\ resp.status = 200
                  THEN Append(created, resp.body) ELSE created

Init ==
  /\ storage = JsonFile(<<>>)
  /\ uploaded_images = << >>
  /\ uuids = 0
  /\ last = Request("none", <<>>, OK(<<>>))
  /\ created = <<>>
  /\ edited = FALSE
  /\ pc = [w \in Workers |-> "idle"]
  /\ local = [w \in Workers |-> Idle]

Upload(file) ==
  /\ uuids < MaxUuid
  /\ Cardinality(DOMAIN uploaded_images) < MaxFiles
  /\ LET r == upload_image(uploaded_images, str_uuid4(uuids + 1), file) IN
       /\ uploaded_images' = r.dir
       /\ uuids' = IF r.uuid THEN uuids + 1 ELSE uuids
       /\ last' = Request("upload", file, r.resp)
  /\ UNCHANGED <<storage, created, edited, pc, local>>

GetImage(filename) ==
  /\ last' = Request("get_image", filename, get_image(uploaded_images, filename))
  /\ UNCHANGED <<storage, uploaded_images, uuids, created, edited, pc, local>>

\* Variant: list puts the newest item first and saves the document so.
GetInventory_SaveReversed ==
  /\ last' = Request("list", <<>>, get_inventory(storage))
  /\ storage' = IF storage.valid
                  THEN save_inventory([i \in 1..Len(storage.data) |->
                                        storage.data[Len(storage.data) + 1 - i]])
                  ELSE storage
  /\ UNCHANGED <<uploaded_images, uuids, created, edited, pc, local>>

GetInventory ==
  /\ last' = Request("list", <<>>, get_inventory(storage))
  /\ UNCHANGED <<storage, uploaded_images, uuids, created, edited, pc, local>>

GetInventoryItem(item_id) ==
  /\ last' = Request("get", item_id, get_inventory_item(storage, item_id))
  /\ UNCHANGED <<storage, uploaded_images, uuids, created, edited, pc, local>>

Create(form) ==
  /\ uuids < MaxUuid
  /\ LET h == create_inventory_item(storage, str_uuid4(uuids + 1), form) IN
       /\ Persist(h)
       /\ uuids' = IF storage.valid THEN uuids + 1 ELSE uuids
       /\ last' = Request("create", form, h.resp)
       /\ Record("create", h.resp)
  /\ UNCHANGED <<uploaded_images, pc, local>>

Update(item_id, form) ==
  /\ LET h == update_inventory_item(storage, item_id, form) IN
       /\ Persist(h)
       /\ last' = Request("update", [item_id |-> item_id, form |-> form], h.resp)
       /\ Record("update", h.resp)
  /\ UNCHANGED <<uploaded_images, uuids, pc, local>>

\* Variant: the image the deleted item refers to is removed with it.
Delete_WithImage(item_id) ==
  /\ LET h == delete_inventory_item(storage, item_id)
         k == FindItem(storage.data, item_id)
         gone == IF h.save THEN {FilenameOf(storage.data[k].image_url)} ELSE {}
     IN
       /\ Persist(h)
       /\ last' = Request("delete", item_id, h.resp)
       /\ Record("delete", h.resp)
       /\ uploaded_images' =
            [f \in (DOMAIN uploaded_images) \ gone |-> uploaded_images[f]]
  /\ UNCHANGED <<uuids, pc, local>>

Delete(item_id) ==
  /\ LET h == delete_inventory_item(storage, item_id) IN
       /\ Persist(h)
       /\ last' = Request("delete", item_id, h.resp)
       /\ Record("delete", h.resp)
  /\ UNCHANGED <<uploaded_images, uuids, pc, local>>

Next ==
  \/ \E file \in UploadFiles : Upload(file)
  \/ \E filename \in Filenames : GetImage(filename)
  \/ GetInventory
  \/ \E item_id \in ItemIds : GetInventoryItem(item_id)
  \/ \E form \in Forms(uploaded_images) : Create(form)
  \/ \E item_id \in ItemIds, form \in Forms(uploaded_images) : Update(item_id, form)
  \/ \E item_id \in ItemIds : Delete(item_id)

Spec == Init /\ [][Next]_vars

----------------------------------------------------------------------------
(* One process whose writes of STORAGE_FILE may fail.  save_inventory has  *)
(* no try/except, so an OSError of open or of json.dump leaves the handler *)
(* as an unhandled exception, which the framework answers with a 500.      *)

InternalServerError == HTTPException(500, "Internal Server Error")

\* STORAGE_FILE after a save_inventory that raised: as it was when
\* open(.., "w") raised; truncated by the open, with nothing or only a
\* beginning of the text in it, when json.dump or the close raised.
save_inventory_raises(file, data) ==
  {file} \cup {[valid |-> FALSE, data |-> <<>>, junk |-> n] : n \in 0..1}

\* A handler that gets as far as save_inventory, which raises.
SaveRaises(op, arg, h) ==
  /\ h.save
  /\ storage' \in save_inventory_raises(storage, h.data)
  /\ last' = Request(op, arg, InternalServerError)
  /\ Record(op, InternalServerError)

CreateSaveRaises(form) ==
  /\ uuids < MaxUuid
  /\ SaveRaises("create", form,
                create_inventory_item(storage, str_uuid4(uuids + 1), form))
  /\ uuids' = uuids + 1
  /\ UNCHANGED <<uploaded_images, pc, local>>

UpdateSaveRaises(item_id, form) ==
  /\ SaveRaises("update", [item_id |-> item_id, form |-> form],
                update_inventory_item(storage, item_id, form))
  /\ UNCHANGED <<uploaded_images, uuids, pc, local>>

DeleteSaveRaises(item_id) ==
  /\ SaveRaises("delete", item_id, delete_inventory_item(storage, item_id))
  /\ UNCHANGED <<uploaded_images, uuids, pc, local>>

NextFault ==
  \/ Next
  \/ \E form \in Forms(uploaded_images) : CreateSaveRaises(form)
  \/ \E item_id \in ItemIds, form \in Forms(uploaded_images) :
       UpdateSaveRaises(item_id, form)
  \/ \E item_id \in ItemIds : DeleteSaveRaises(item_id)

SpecFault == Init /\ [][NextFault]_vars

----------------------------------------------------------------------------
(* Several worker processes over the same STORAGE_FILE.  Nothing orders    *)
(* the file operations of two processes, so a mutating call is three       *)
(* steps: load_inventory with the in-memory change, the open(.., "w") of   *)
(* save_inventory, and its json.dump with the close and the response.      *)

\* The handler returns: its locals are gone and the caller has the response.
Respond(w, op, arg, resp) ==
  /\ pc' = [pc EXCEPT ![w] = "idle"]
  /\ local' = [local EXCEPT ![w] = Idle]
  /\ Record(op, resp)
  /\ UNCHANGED last

\* From load_inventory to the call of save_inventory, or to the error.
Proceed(w, op, arg, h) ==
  IF h.save
  THEN /\ pc' = [pc EXCEPT ![w] = "loaded"]
       /\ local' = [local EXCEPT ![w] =
                      [op |-> op, arg |-> arg, resp |-> h.resp, data |-> h.data]]
       /\ UNCHANGED <<last, created, edited>>
  ELSE Respond(w, op, arg, h.resp)

LoadCreate(w, form) ==
  /\ pc[w] = "idle"
  /\ uuids < MaxWorkerUuid
  /\ Proceed(w, "create", form,
             create_inventory_item(storage, str_uuid4(uuids + 1), form))
  /\ uuids' = IF storage.valid THEN uuids + 1 ELSE uuids
  /\ UNCHANGED <<storage, uploaded_images>>

LoadUpdate(w, item_id, form) ==
  /\ pc[w] = "idle"
  /\ Proceed(w, "update", [item_id |-> item_id, form |-> form],
             update_inventory_item(storage, item_id, form))
  /\ UNCHANGED <<storage, uploaded_images, uuids>>

LoadDelete(w, item_id) ==
  /\ pc[w] = "idle"
  /\ Proceed(w, "delete", item_id, delete_inventory_item(storage, item_id))
  /\ UNCHANGED <<storage, uploaded_images, uuids>>

OpenStorage(w) ==
  /\ pc[w] = "loaded"
  /\ storage' = Truncated
  /\ pc' = [pc EXCEPT ![w] = "opened"]
  /\ UNCHANGED <<uploaded_images, uuids, last, created, edited, local>>

DumpStorage(w) ==
  /\ pc[w] = "opened"
  /\ storage' = DumpResult(storage, local[w].data)
  /\ Respond(w, local[w].op, local[w].arg, local[w].resp)
  /\ UNCHANGED <<uploaded_images, uuids>>

\* The forms the workers are sent.
WorkerForms == DanglingForms

NextConc ==
  \E w \in Workers :
    \/ \E form \in WorkerForms : LoadCreate(w, form)
    \/ \E item_id \in ItemIds, form \in WorkerForms : LoadUpdate(w, item_id, form)
    \/ \E item_id \in ItemIds : LoadDelete(w, item_id)
    \/ OpenStorage(w)
    \/ DumpStorage(w)

SpecConc == Init /\ [][NextConc]_vars

----------------------------------------------------------------------------
(* Properties of the one-process server (Spec).                            *)

Ids(data) == {data[i].id : i \in 1..Len(data)}

FormOfLast(req) == IF req.op = "create" THEN req.arg ELSE req.arg.form

HasFields(item, item_id, form) ==
  /\ item.id = item_id
  /\ item.name = form.name
  /\ item.description = form.description
  /\ item.category = form.category
  /\ item.image_url = form.image_url

\* C1: a create whose image_url begins with "/images/" returns an item with
\* the generated id and the four given fields, and a get with that id right
\* after it returns that same item.
C1_CreateThenGet ==
  (last.op = "create" /\ StartsWith(last.arg.image_url, IMAGES)) =>
    /\ last.status = 200
    /\ HasFields(last.body, <<"u" \o ToString(uuids)>>, last.arg)
    /\ DOMAIN last.body = {"id", "name", "description", "category", "image_url"}
    /\ get_inventory_item(storage, last.body.id) = [status |-> 200, body |-> last.body]

C1_Witness ==
  /\ last.op = "create"
  /\ last.status = 200
  /\ Len(storage.data) >= 2

\* C2: as long as only creates have succeeded since the empty document,
\* list returns exactly the created items, in the order of their creation.
C2_ListAfterCreates ==
  ~edited =>
    /\ get_inventory(storage) = [status |-> 200, body |-> created]
    /\ last.op = "list" => (last.status = 200 /\ last.body = created)
    /\ last.op = "create" /\ last.status = 200 =>
         (Len(created) >= 1 /\ created[Len(created)] = last.body)

C2_Witness ==
  /\ last.op = "list"
  /\ ~edited
  /\ Len(created) >= 2
  /\ Len(last.body) = Len(created)

\* C3: update of an id no item has returns 404; update of an existing id
\* with a valid image_url replaces the four fields of that item in place and
\* leaves its id, its position, every other item, the length and the order
\* as they were.
C3_UpdateInPlace ==
  [][ last'.op = "update" =>
        LET id == last'.arg.item_id
            form == last'.arg.form
            old == storage.data
            new == storage'.data
        IN /\ (id \notin Ids(old)) => last'.status = 404
           /\ (id \in Ids(old) /\ StartsWith(form.image_url, IMAGES)) =>
                /\ last'.status = 200
                /\ Len(new) = Len(old)
                /\ \A i \in 1..Len(old) :
                     IF old[i].id = id THEN HasFields(new[i], id, form)
                     ELSE new[i] = old[i] ]_vars

C3_Witness ==
  /\ last.op = "update"
  /\ last.status = 200
  /\ Len(storage.data) >= 2
  /\ storage.data[1].id = last.arg.item_id

\* C4: delete of an existing id removes exactly the item with that id and
\* keeps the others in their order; delete of an id no item has (so also a
\* second delete of the same id) returns 404 and changes nothing.
C4_DeleteOne ==
  [][ last'.op = "delete" =>
        LET id == last'.arg
            old == storage.data
            new == storage'.data
        IN IF id \in Ids(old)
           THEN /\ last'.status = 200
                /\ \E k \in 1..Len(old) :
                     /\ old[k].id = id
                     /\ new = SubSeq(old, 1, k - 1) \o SubSeq(old, k + 1, Len(old))
                /\ delete_inventory_item(storage', id).resp.status = 404
                /\ ~delete_inventory_item(storage', id).save
           ELSE /\ last'.status = 404
                /\ storage' = storage ]_vars

C4_Witness ==
  /\ last.op = "delete"
  /\ last.status = 200
  /\ Len(storage.data) >= 2

\* C5 as stated: every create or update whose image_url lacks the prefix
\* fails with 400 and leaves the document as it was.
C5_Original ==
  [][ (last'.op \in {"create", "update"}
       /\ ~StartsWith(FormOfLast(last').image_url, IMAGES)) =>
        /\ last'.status = 400
        /\ storage' = storage ]_vars

\* C5 as amended: a create, or an update of an existing id, whose image_url
\* lacks the prefix fails with 400; an update of an id no item has fails
\* with 404; either way the document is left as it was.
C5_InvalidUrlRejected ==
  [][ (last'.op \in {"create", "update"}
       /\ ~StartsWith(FormOfLast(last').image_url, IMAGES)) =>
        /\ storage' = storage
        /\ last'.status =
             IF last'.op = "update" /\ last'.arg.item_id \notin Ids(storage.data)
             THEN 404 ELSE 400 ]_vars

C5_Witness ==
  /\ last.op = "update"
  /\ last.status = 400
  /\ Len(storage.data) >= 1

\* C6: no two items of the collection have the same id.
C6_UniqueIds ==
  \A i, j \in 1..Len(storage.data) :
    i # j => storage.data[i].id # storage.data[j].id

C6_Witness ==
  /\ Len(storage.data) >= 2
  /\ edited

\* C8: an upload whose declared media type does not start with "image/" is
\* rejected with 400 and writes no file; one whose type does start with it
\* succeeds, and retrieving the file name of the returned reference gives
\* the uploaded bytes.
C8_UploadRoundTrip ==
  [][ (last'.op = "upload" /\ last'.arg.declared) =>
        IF ~StartsWith(last'.arg.content_type, IMAGE_SLASH)
        THEN /\ last'.status = 400
             /\ uploaded_images' = uploaded_images
        ELSE /\ last'.status = 200
             /\ StartsWith(last'.body.image_url, IMAGES)
             /\ LET r == get_image(uploaded_images', FilenameOf(last'.body.image_url))
                IN r.status = 200 /\ r.body.content = last'.arg.content ]_vars

C10_DanglingAccepted ==
  [][ /\ (/\ last'.op \in {"create", "update"}
          /\ StartsWith(FormOfLast(last').image_url, IMAGES)
          /\ FilenameOf(FormOfLast(last').image_url) \notin DOMAIN uploaded_images
          /\ last'.op = "update" => last'.arg.item_id \in Ids(storage.data)) =>
            /\ last'.status = 200
            /\ last'.body.image_url = FormOfLast(last').image_url
            /\ \E i \in 1..Len(storage'.data) : storage'.data[i] = last'.body
      /\ get_inventory(storage').status = 200
      /\ \A i \in 1..Len(storage'.data) :
           get_inventory_item(storage', storage'.data[i].id).status = 200 ]_vars

C10_Witness ==
  /\ last.op = "update"
  /\ last.status = 200
  /\ DOMAIN uploaded_images # {}
  /\ FilenameOf(last.arg.form.image_url) \notin DOMAIN uploaded_images
  /\ \E i \in 1..Len(storage.data) : storage.data[i] = last.body

\* C12: update looks the id up before it validates: an update of an id no
\* item has answers 404 also when its image_url lacks the prefix, and an
\* update answers 400 only when the id exists (and the prefix is missing).
C12_NotFoundBeforeInvalid ==
  [][ last'.op = "update" =>
        LET absent == last'.arg.item_id \notin Ids(storage.data)
            invalid == ~StartsWith(last'.arg.form.image_url, IMAGES)
        IN /\ (absent /\ invalid) => last'.status = 404
           /\ last'.status = 400 <=> (~absent /\ invalid) ]_vars

C12_Witness ==
  /\ last.op = "update"
  /\ last.status = 404
  /\ ~StartsWith(last.arg.form.image_url, IMAGES)
  /\ Len(storage.data) >= 1

\* C14: a list, a get (found or not) and an update or delete that answers
\* 404 leave the inventory document and the image directory as they were.
C14_ReadsChangeNothing ==
  [][ (\/ last'.op \in {"list", "get"}
       \/ (last'.op \in {"update", "delete"} /\ last'.status = 404)) =>
        /\ storage' = storage
        /\ uploaded_images' = uploaded_images ]_vars

C14_Witness ==
  /\ last.op = "get"
  /\ last.status = 404
  /\ Len(storage.data) >= 2
  /\ DOMAIN uploaded_images # {}

----------------------------------------------------------------------------
(* Properties of the one-process server with failing writes (SpecFault).   *)

\* C13: a request that fails leaves nothing behind that a later request
\* can see: after a response other than 200, list, every get, every
\* create, update and delete and every retrieve answer as they would have
\* answered before the failed request.
C13_FailuresNotContagious ==
  [][ last'.status # 200 =>
        /\ uploaded_images' = uploaded_images
        /\ get_inventory(storage') = get_inventory(storage)
        /\ \A item_id \in ItemIds :
             /\ get_inventory_item(storage', item_id)
                  = get_inventory_item(storage, item_id)
             /\ delete_inventory_item(storage', item_id)
                  = delete_inventory_item(storage, item_id)
             /\ \A form \in Forms(uploaded_images) :
                  update_inventory_item(storage', item_id, form)
                    = update_inventory_item(storage, item_id, form)
        /\ \A form \in Forms(uploaded_images) :
             create_inventory_item(storage', UnknownId, form)
               = create_inventory_item(storage, UnknownId, form) ]_vars

\* The last four characters of a name, lower-cased by hand.
ExtensionIn(f, exts) ==
  Len(f) >= 4 /\ SubSeq(f, Len(f) - 3, Len(f)) \in exts

PngExtensions ==
  {<<".", p, n, g>> : p \in {"p", "P"}, n \in {"n", "N"}, g \in {"g", "G"}}

GifExtensions ==
  {<<".", g, i, f>> : g \in {"g", "G"}, i \in {"i", "I"}, f \in {"f", "F"}}

\* C11: a retrieve of a stored file name answers with image/png when the
\* lower-cased name ends in ".png", image/gif when it ends in ".gif" and
\* image/jpeg otherwise, whatever media type the upload declared; a
\* retrieve of a name that is not a stored file answers 404.
C11_MediaTypeByName ==
  last.op = "get_image" =>
    IF last.arg \in DOMAIN uploaded_images
    THEN /\ last.status = 200
         /\ last.body.media_type =
              IF ExtensionIn(last.arg, PngExtensions) THEN "image/png"
              ELSE IF ExtensionIn(last.arg, GifExtensions) THEN "image/gif"
              ELSE "image/jpeg"
    ELSE last.status = 404

----------------------------------------------------------------------------
(* Properties of the worker processes (SpecConc).                          *)

Items(data) == {data[i] : i \in 1..Len(data)}

\* C7: a rewrite that leaves a well-formed document leaves exactly the list
\* its worker computed from its own read: an item another worker has
\* created and reported since that read is absent from the document (last
\* writer wins).
C7_LastWriterWins ==
  [][ \A w \in Workers :
        (pc[w] = "opened" /\ pc'[w] = "idle" /\ storage'.valid) =>
          /\ storage'.data = local[w].data
          /\ \A i \in 1..Len(created) :
               created[i] \notin Items(local[w].data) =>
                 created[i] \notin Items(storage'.data) ]_vars

\* The lost update: two creates have reported success, no update or delete
\* has ever succeeded, and the document holds one of the two items.
C7_Witness ==
  /\ \A w \in Workers : pc[w] = "idle"
  /\ storage.valid
  /\ ~edited
  /\ Len(created) = 2
  /\ Len(storage.data) = 1
  /\ created[1] \notin Items(storage.data)
  /\ created[2] \in Items(storage.data)

====
